---- MODULE Spec2Model ----
(***************************************************************************)
(* A model of gdrivewrapper's GDriveWrapper (src/gdrivewrapper/wrapper.py):*)
(* the optional concurrency gate installed by __init__, the bounded retry  *)
(* loop of upload, and the throttled chunk loop of _download.              *)
(*                                                                         *)
(* Callers are threads using one client instance.  A call is in flight     *)
(* from Call(c, a) until Return(c).  The remote service is scripted per    *)
(* call, as a mock's side-effect list is: the n-th invocation of the       *)
(* transport gets the n-th response of the script.                         *)
(***************************************************************************)
EXTENDS Integers, Sequences, FiniteSets, TLC

\* ------------------------------------------------------------- bounds
NumCallers == 2
MaxRetry == 3
MaxFails == 4
MaxClock == 3
MaxSize == 3
MaxRate == 2

\* wrapper.py:15
DEFAULT_UPLOAD_RETRY_COUNT == 5

Callers == 1..NumCallers

\* Python's None; an optional value is None or the one-element <<x>>.
None == <<>>
Some(x) == <<x>>

VARIABLES
    allow_concurrent_calls, \* the constructor's argument
    lock,                   \* the gate's lock: None or Some(holder)
    pc,                     \* each caller's position
    call,                   \* each caller's arguments of the call in flight
    events,                 \* each call's trace and lock events, in order
    outcome,                \* how the call's body ended
    requests,               \* the transport invocations the call has made
    i,                      \* upload: the loop index
    last_exception_msg,     \* upload: the last transient error's message
    clock,                  \* what time.perf_counter() reads, in ticks
    fp,                     \* download: the bytes written to the target
    fp_state,               \* download: "none", "open" or "closed"
    done,                   \* download: the loop's flag
    prev_time,              \* download: the previous checkpoint's time
    prev_bytes,             \* download: the previous checkpoint's bytes
    status,                 \* download: the last chunk's progress
    current_time,           \* download: the time read after the last chunk
    throttle                \* download: what the throttle did for the last chunk

upVars == <<i, last_exception_msg>>
dlVars == <<fp, fp_state, done, prev_time, prev_bytes, status, current_time, throttle>>

vars == <<allow_concurrent_calls, lock, pc, call, events, outcome, requests,
          upVars, clock, dlVars>>

\* ------------------------------------------------------------ values
Pending == [kind |-> "pending"]
Returned(v) == [kind |-> "return", val |-> v]
Raised(e) == [kind |-> "raise", exc |-> e]

\* An exception object: its type and its argument.  The transport's errors
\* carry a message (a tuple standing for a string), and str(e) yields it.
Exc(t, m) == [type |-> t, arg |-> m]
Str(e) == e.arg

\* except (ssl.SSLError, BrokenPipeError)
TransientKinds == {"SSLError", "BrokenPipeError"}
IsTransientMutant(e) == e.type \in TransientKinds \cup {"HttpError"}
IsTransient(e) == e.type \in TransientKinds

\* ----------------------------------------------------- remote service
\* What one invocation of the transport can do.
Responses == {"ok", "HttpError"} \cup TransientKinds

RECURSIVE SeqsOver(_, _)
SeqsOver(S, n) ==
    IF n = 0 THEN {<<>>}
    ELSE LET shorter == SeqsOver(S, n - 1)
         IN shorter \cup {Append(s, x) : s \in {t \in shorter : Len(t) = n - 1}, x \in S}

\* A script: transient failures, then a last response that repeats.
Scripts == {Append(p, r) : p \in SeqsOver(TransientKinds, MaxFails), r \in Responses}

ScriptAt(script, n) == IF n <= Len(script) THEN script[n] ELSE script[Len(script)]

\* The metadata the service answers request number n with.
Metadata(n) == <<"metadata", n>>

\* The n-th invocation's result: a response value or an exception whose
\* message names the invocation.
Respond(script, n) ==
    LET r == ScriptAt(script, n)
    IN IF r = "ok" THEN [ok |-> TRUE, val |-> Metadata(n)]
       ELSE [ok |-> FALSE, exc |-> Exc(r, <<r, n>>)]

\* ------------------------------------------------------------- __init__
\* if not allow_concurrent_calls: prevent_concurrent_calls(self)
GatedMutant == allow_concurrent_calls
Gated == ~allow_concurrent_calls

Init ==
    /\ allow_concurrent_calls \in BOOLEAN
    /\ lock = None
    /\ pc = [c \in Callers |-> "idle"]
    /\ call = [c \in Callers |-> [op |-> "none"]]
    /\ events = [c \in Callers |-> <<>>]
    /\ outcome = [c \in Callers |-> Pending]
    /\ requests = [c \in Callers |-> <<>>]
    /\ i = [c \in Callers |-> 0]
    /\ last_exception_msg = [c \in Callers |-> None]
    /\ clock = 0
    /\ fp = [c \in Callers |-> <<>>]
    /\ fp_state = [c \in Callers |-> "none"]
    /\ done = [c \in Callers |-> FALSE]
    /\ prev_time = [c \in Callers |-> 0]
    /\ prev_bytes = [c \in Callers |-> 0]
    /\ status = [c \in Callers |-> None]
    /\ current_time = [c \in Callers |-> 0]
    /\ throttle = [c \in Callers |-> None]

\* ------------------------------------------------------------ the calls
\* Every retry count against every script, with no extra fields.
UploadArgs ==
    {[op |-> "upload", key |-> k, retry_count |-> n, script |-> s,
      folder_id |-> None, thumbnail |-> None, kwargs |-> <<>>] :
        k \in {None, Some("F1")},
        n \in (-1..MaxRetry) \cup {DEFAULT_UPLOAD_RETRY_COUNT},
        s \in Scripts}

\* **kwargs of upload: maps from field names to values.
UploadKwargs ==
    {<<>>,
     [name |-> "a.txt"],
     [name |-> "a.txt", parents |-> <<"P0", "P9">>],
     [contentHints |-> [indexableText |-> "text"]],
     [parents |-> <<"P0">>,
      contentHints |-> [indexableText |-> "text",
                        thumbnail |-> [image |-> "old", mimeType |-> "image/jpeg"]]]}

\* Every shape of the body, against uploads that succeed at once or after
\* one or two retries.
BodyArgs ==
    {[op |-> "upload", key |-> k, retry_count |-> 3, script |-> s,
      folder_id |-> f, thumbnail |-> t, kwargs |-> kw] :
        k \in {None, Some("F1")},
        s \in {<<"ok">>, <<"SSLError", "ok">>, <<"SSLError", "BrokenPipeError", "ok">>},
        f \in {None, Some("P1")},
        t \in {None, Some("png")},
        kw \in UploadKwargs}

\* No call in flight: the caller's frame holds no locals.
NoLocals(c) ==
    /\ i' = [i EXCEPT ![c] = 0]
    /\ last_exception_msg' = [last_exception_msg EXCEPT ![c] = None]
    /\ fp' = [fp EXCEPT ![c] = <<>>]
    /\ fp_state' = [fp_state EXCEPT ![c] = "none"]
    /\ done' = [done EXCEPT ![c] = FALSE]
    /\ prev_time' = [prev_time EXCEPT ![c] = 0]
    /\ prev_bytes' = [prev_bytes EXCEPT ![c] = 0]
    /\ status' = [status EXCEPT ![c] = None]
    /\ current_time' = [current_time EXCEPT ![c] = 0]
    /\ throttle' = [throttle EXCEPT ![c] = None]

DownloadArgs ==
    {a \in
     {[op |-> o, key |-> Some("F1"), max_bytes_per_second |-> m, size |-> n,
      writable |-> w, error |-> e] :
        o \in {"download_bytes", "download_file"},
        m \in {None} \cup {Some(r) : r \in 0..MaxRate},
        n \in 1..MaxSize,
        w \in BOOLEAN,
        e \in {"HttpError"} \cup TransientKinds} :
     a.op = "download_bytes" => a.writable}

\* **kwargs of create_folder; name is a parameter of its own and cannot be
\* passed again.
FolderKwargs ==
    {<<>>,
     [mimeType |-> "text/plain"],
     [parents |-> <<"P0">>],
     [description |-> "monthly"],
     [mimeType |-> "text/plain", parents |-> <<"P0", "P9">>, description |-> "monthly"]}

FolderArgs ==
    {[op |-> "create_folder", name |-> "reports", folder_id |-> f, kwargs |-> kw,
      script |-> <<r>>] :
        f \in {None, Some("P1")}, kw \in FolderKwargs, r \in Responses}

CommentArgs ==
    {[op |-> "create_comment", key |-> Some("F1"), comment |-> "hello",
      script |-> <<r>>] :
        r \in Responses}

\* The calls of the concurrent specification: every operation, every way
\* an operation can end, and an upload that retries.
GateArgs ==
    {a \in UploadArgs :
        /\ a.key = None
        /\ a.retry_count = 2
        /\ a.script \in {<<"SSLError", "ok">>, <<"BrokenPipeError">>, <<"HttpError">>}}
    \cup {a \in DownloadArgs :
        /\ a.max_bytes_per_second = None
        /\ a.size = 1
        /\ a.writable
        /\ a.error = "HttpError"}
    \cup {a \in FolderArgs :
        a.folder_id = None /\ a.kwargs = <<>> /\ a.script = <<"HttpError">>}
    \cup {a \in CommentArgs : a.script = <<"ok">>}

\* A caller invokes a public operation of the client.
Call(c, a) ==
    /\ pc[c] = "idle"
    /\ pc' = [pc EXCEPT ![c] = "enter"]
    /\ call' = [call EXCEPT ![c] = a]
    /\ events' = [events EXCEPT ![c] = <<>>]
    /\ outcome' = [outcome EXCEPT ![c] = Pending]
    /\ requests' = [requests EXCEPT ![c] = <<>>]
    /\ NoLocals(c)
    /\ UNCHANGED <<allow_concurrent_calls, lock, clock>>

\* ------------------------------------------------- the concurrency gate
\* prevent_concurrent_calls(self) wraps every public operation: trace
\* "acquiring lock", acquire, trace "acquired lock", the operation, and in
\* a finally block release and trace "released lock".
TraceAcquiringMutant(c) ==
    /\ pc[c] = "enter"
    /\ Gated
    /\ pc' = [pc EXCEPT ![c] = "wait"]
    /\ UNCHANGED <<allow_concurrent_calls, lock, call, events, outcome, requests,
                   upVars, clock, dlVars>>

TraceAcquiring(c) ==
    /\ pc[c] = "enter"
    /\ Gated
    /\ events' = [events EXCEPT ![c] = Append(@, "acquiring lock")]
    /\ pc' = [pc EXCEPT ![c] = "wait"]
    /\ UNCHANGED <<allow_concurrent_calls, lock, call, outcome, requests, upVars,
                   clock, dlVars>>

AcquireLock(c) ==
    /\ pc[c] = "wait"
    /\ lock = None
    /\ lock' = Some(c)
    /\ events' = [events EXCEPT ![c] = Append(@, "acquire")]
    /\ pc' = [pc EXCEPT ![c] = "locked"]
    /\ UNCHANGED <<allow_concurrent_calls, call, outcome, requests, upVars,
                   clock, dlVars>>

TraceAcquired(c) ==
    /\ pc[c] = "locked"
    /\ events' = [events EXCEPT ![c] = Append(@, "acquired lock")]
    /\ pc' = [pc EXCEPT ![c] = "body"]
    /\ UNCHANGED <<allow_concurrent_calls, lock, call, outcome, requests, upVars,
                   clock, dlVars>>

\* Without the gate the operation is the undecorated method.
Direct(c) ==
    /\ pc[c] = "enter"
    /\ ~Gated
    /\ pc' = [pc EXCEPT ![c] = "body"]
    /\ UNCHANGED <<allow_concurrent_calls, lock, call, events, outcome, requests,
                   upVars, clock, dlVars>>

\* The release after the operation, but not in a finally block.
ReleaseLockMutant(c) ==
    /\ pc[c] = "exit"
    /\ Gated
    /\ IF outcome[c].kind = "return"
       THEN /\ lock' = None
            /\ events' = [events EXCEPT ![c] = Append(@, "release")]
            /\ pc' = [pc EXCEPT ![c] = "released"]
       ELSE /\ pc' = [pc EXCEPT ![c] = "returned"]
            /\ UNCHANGED <<lock, events>>
    /\ UNCHANGED <<allow_concurrent_calls, call, outcome, requests, upVars,
                   clock, dlVars>>

ReleaseLock(c) ==
    /\ pc[c] = "exit"
    /\ Gated
    /\ lock' = None
    /\ events' = [events EXCEPT ![c] = Append(@, "release")]
    /\ pc' = [pc EXCEPT ![c] = "released"]
    /\ UNCHANGED <<allow_concurrent_calls, call, outcome, requests, upVars,
                   clock, dlVars>>

TraceReleased(c) ==
    /\ pc[c] = "released"
    /\ events' = [events EXCEPT ![c] = Append(@, "released lock")]
    /\ pc' = [pc EXCEPT ![c] = "returned"]
    /\ UNCHANGED <<allow_concurrent_calls, lock, call, outcome, requests, upVars,
                   clock, dlVars>>

Leave(c) ==
    /\ pc[c] = "exit"
    /\ ~Gated
    /\ pc' = [pc EXCEPT ![c] = "returned"]
    /\ UNCHANGED <<allow_concurrent_calls, lock, call, events, outcome, requests,
                   upVars, clock, dlVars>>

\* The caller has the call's result or error; the call is over.
Return(c) ==
    /\ pc[c] = "returned"
    /\ pc' = [pc EXCEPT ![c] = "idle"]
    /\ call' = [call EXCEPT ![c] = [op |-> "none"]]
    /\ events' = [events EXCEPT ![c] = <<>>]
    /\ outcome' = [outcome EXCEPT ![c] = Pending]
    /\ requests' = [requests EXCEPT ![c] = <<>>]
    /\ NoLocals(c)
    /\ UNCHANGED <<allow_concurrent_calls, lock, clock>>

\* The body of an operation ends: with a value or with an exception.
Finish(c, out) ==
    /\ outcome' = [outcome EXCEPT ![c] = out]
    /\ events' = [events EXCEPT ![c] = Append(@, "body_end")]
    /\ pc' = [pc EXCEPT ![c] = "exit"]

\* The wrapped operation is called: the body starts.
Entry(op) ==
    CASE op = "upload" -> "up_for"
      [] op \in {"download_bytes", "download_file"} -> "dl_open"
      [] op = "create_folder" -> "cf_req"
      [] op = "create_comment" -> "cc_req"

Invoke(c) ==
    /\ pc[c] = "body"
    /\ events' = [events EXCEPT ![c] = Append(@, "body_start")]
    /\ pc' = [pc EXCEPT ![c] = Entry(call[c].op)]
    /\ UNCHANGED <<allow_concurrent_calls, lock, call, outcome, requests, upVars,
                   clock, dlVars>>

\* --------------------------------------------------------------- upload
\* idx in range(n)
InRangeMutant(idx, n) == idx < n - 1
InRange(idx, n) == idx < n

\* A loop that tests its range after the first attempt.
UploadForMutant(c) ==
    /\ pc[c] = "up_for"
    /\ IF InRange(i[c], call[c].retry_count) \/ i[c] = 0
       THEN /\ pc' = [pc EXCEPT ![c] = "up_try"]
            /\ UNCHANGED <<events, outcome>>
       ELSE Finish(c, Raised(Exc("RuntimeError", last_exception_msg[c])))
    /\ UNCHANGED <<allow_concurrent_calls, lock, call, requests, upVars,
                   clock, dlVars>>

\* for i in range(retry_count): ... ; raise RuntimeError(last_exception_msg)
UploadFor(c) ==
    /\ pc[c] = "up_for"
    /\ IF InRange(i[c], call[c].retry_count)
       THEN /\ pc' = [pc EXCEPT ![c] = "up_try"]
            /\ UNCHANGED <<events, outcome>>
       ELSE Finish(c, Raised(Exc("RuntimeError", last_exception_msg[c])))
    /\ UNCHANGED <<allow_concurrent_calls, lock, call, requests, upVars,
                   clock, dlVars>>

\* last_exception_msg = str(e)
HandledMutant(old, e) == IF old = None THEN Str(e) ELSE old
Handled(old, e) == Str(e)

\* if folder_id: / if thumbnail: / if key: a string that is not empty
Present(v) == v /= None /\ v /= Some("")

\* kwargs.get("contentHints", dict())
ContentHints(kwargs) ==
    IF "contentHints" \in DOMAIN kwargs THEN kwargs["contentHints"] ELSE <<>>

\* content_hints.update(...) drops what the hints held before.
UploadBodyMutant(kwargs, folder_id, thumbnail) ==
    LET with_parents == IF Present(folder_id)
                        THEN ("parents" :> <<folder_id[1]>>) @@ kwargs
                        ELSE kwargs
    IN IF Present(thumbnail)
       THEN ("contentHints" :>
                ("thumbnail" :> [image |-> thumbnail[1], mimeType |-> "image/png"]))
            @@ with_parents
       ELSE with_parents

\* Lines 59-70: kwargs["parents"] = [folder_id]; the thumbnail merged into
\* kwargs["contentHints"].
UploadBody(kwargs, folder_id, thumbnail) ==
    LET with_parents == IF Present(folder_id)
                        THEN ("parents" :> <<folder_id[1]>>) @@ kwargs
                        ELSE kwargs
    IN IF Present(thumbnail)
       THEN ("contentHints" :>
                (("thumbnail" :> [image |-> thumbnail[1], mimeType |-> "image/png"])
                 @@ ContentHints(with_parents)))
            @@ with_parents
       ELSE with_parents

\* files().create(...) whatever the key.
UploadRequestMutant(key, body) == [op |-> "create", fileId |-> None, body |-> body]

\* if key: files().update(fileId=key, body=kwargs, ...)
\* else: files().create(body=kwargs, ...)
UploadRequest(key, body) ==
    IF Present(key)
    THEN [op |-> "update", fileId |-> key, body |-> body]
    ELSE [op |-> "create", fileId |-> None, body |-> body]

\* The try block: one invocation of the transport and what follows it.
UploadTry(c) ==
    /\ pc[c] = "up_try"
    /\ LET n == Len(requests[c]) + 1
           r == Respond(call[c].script, n)
       IN /\ requests' = [requests EXCEPT ![c] = Append(@,
                 UploadRequest(call[c].key,
                               UploadBody(call[c].kwargs, call[c].folder_id,
                                          call[c].thumbnail)))]
          /\ IF r.ok
             THEN /\ Finish(c, Returned(r.val))
                  /\ UNCHANGED last_exception_msg
             ELSE IF IsTransient(r.exc)
             THEN /\ last_exception_msg' = [last_exception_msg EXCEPT ![c] = Handled(@, r.exc)]
                  /\ pc' = [pc EXCEPT ![c] = "up_sleep"]
                  /\ UNCHANGED <<events, outcome>>
             ELSE /\ Finish(c, Raised(r.exc))
                  /\ UNCHANGED last_exception_msg
    /\ UNCHANGED <<allow_concurrent_calls, lock, call, i, clock, dlVars>>

\* A backoff that gives the lock up.
UploadSleepMutant(c) ==
    /\ pc[c] = "up_sleep"
    /\ i' = [i EXCEPT ![c] = @ + 1]
    /\ pc' = [pc EXCEPT ![c] = "up_for"]
    /\ lock' = None
    /\ UNCHANGED <<allow_concurrent_calls, call, events, outcome, requests,
                   last_exception_msg, clock, dlVars>>

\* time.sleep(1); continue
UploadSleep(c) ==
    /\ pc[c] = "up_sleep"
    /\ i' = [i EXCEPT ![c] = @ + 1]
    /\ pc' = [pc EXCEPT ![c] = "up_for"]
    /\ UNCHANGED <<allow_concurrent_calls, lock, call, events, outcome, requests,
                   last_exception_msg, clock, dlVars>>

\* ------------------------------------------- create_folder, create_comment
FolderMimeType == "application/vnd.google-apps.folder"

\* The caller's fields written over the three of create_folder.
FolderBodyMutant(name, folder_id, kwargs) ==
    kwargs
    @@ (IF folder_id /= None /\ folder_id /= Some("")
        THEN "parents" :> <<folder_id[1]>>
        ELSE <<>>)
    @@ ("name" :> name @@ "mimeType" :> FolderMimeType)

\* kwargs["name"] = name; kwargs["mimeType"] = ...; if folder_id: kwargs["parents"] = [folder_id]
FolderBody(name, folder_id, kwargs) ==
    (IF folder_id /= None /\ folder_id /= Some("")
     THEN "parents" :> <<folder_id[1]>>
     ELSE <<>>)
    @@ ("name" :> name @@ "mimeType" :> FolderMimeType)
    @@ kwargs

\* One request, executed once: its response or its error is the call's.
Execute(c, request) ==
    LET r == Respond(call[c].script, 1)
    IN /\ requests' = [requests EXCEPT ![c] = Append(@, request)]
       /\ Finish(c, IF r.ok THEN Returned(r.val) ELSE Raised(r.exc))

CreateFolder(c) ==
    /\ pc[c] = "cf_req"
    /\ Execute(c, [op |-> "create",
                   body |-> FolderBody(call[c].name, call[c].folder_id, call[c].kwargs)])
    /\ UNCHANGED <<allow_concurrent_calls, lock, call, upVars, clock, dlVars>>

CreateComment(c) ==
    /\ pc[c] = "cc_req"
    /\ Execute(c, [op |-> "comments.create", fileId |-> call[c].key,
                   body |-> [content |-> call[c].comment], fields |-> "id"])
    /\ UNCHANGED <<allow_concurrent_calls, lock, call, upVars, clock, dlVars>>

\* ------------------------------------------------------------- download
RECURSIVE GCD(_, _)
GCD(a, b) == IF b = 0 THEN a ELSE GCD(b, a % b)

Abs(x) == IF x < 0 THEN -x ELSE x

\* The code's floats, exactly: a rational in lowest terms, den > 0.
Rat(n, d) ==
    LET g == GCD(Abs(n), Abs(d))
        sgn == IF d < 0 THEN -1 ELSE 1
    IN [num |-> sgn * (n \div g), den |-> sgn * (d \div g)]

Zero == Rat(0, 1)
RatDiv(r, k) == Rat(r.num, r.den * k)
RatMul(r, k) == Rat(r.num * k, r.den)
RatSub(r, k) == Rat(r.num - k * r.den, r.den)
RatPos(r) == r.num > 0

\* if max_bytes_per_second is not None:
TruthyMutant(m) == m /= None

\* if max_bytes_per_second:
Truthy(m) == m /= None /\ m /= Some(0)

\* excess_ratio = actual_speed / max_bytes_per_second - 1
ExcessRatio(bytes_since_last_checked, elapsed, max_bytes_per_second) ==
    LET actual_speed == Rat(bytes_since_last_checked, elapsed)
    IN RatSub(RatDiv(actual_speed, max_bytes_per_second), 1)

\* if excess_ratio > 0: time.sleep(excess_ratio * max_bytes_per_second)
SleepFor(bytes_since_last_checked, elapsed, max_bytes_per_second) ==
    LET excess_ratio == ExcessRatio(bytes_since_last_checked, elapsed, max_bytes_per_second)
    IN IF RatPos(excess_ratio) THEN RatMul(excess_ratio, max_bytes_per_second) ELSE Zero

\* prev_time = current_time; prev_bytes = status.total_size, inside the if
CheckpointMutant(throttled, old, new) == new
Checkpoint(throttled, old, new) == IF throttled THEN new ELSE old

\* The remote file: size bytes, each its own position.
FileBytes(from, to) == [j \in 1..(to - from + 1) |-> from + j - 1]

\* The target closed after the loop, but not by a with block.
DlFinishMutant(c, out) ==
    /\ Finish(c, out)
    /\ fp_state' = [fp_state EXCEPT ![c] = IF out.kind = "return" THEN "closed" ELSE @]

\* The with block is left: the target is closed and the body ends.
DlFinish(c, out) ==
    /\ Finish(c, out)
    /\ fp_state' = [fp_state EXCEPT ![c] = "closed"]

\* io.BytesIO() or open(local_path, "wb"), then _download up to its loop.
DlOpen(c) ==
    /\ pc[c] = "dl_open"
    /\ IF call[c].op = "download_file" /\ ~call[c].writable
       THEN /\ Finish(c, Raised(Exc("OSError", <<"OSError", 0>>)))
            /\ UNCHANGED <<requests, dlVars>>
       ELSE /\ fp_state' = [fp_state EXCEPT ![c] = "open"]
            /\ fp' = [fp EXCEPT ![c] = <<>>]
            /\ requests' = [requests EXCEPT ![c] =
                   Append(@, [op |-> "get_media", fileId |-> call[c].key])]
            /\ done' = [done EXCEPT ![c] = FALSE]
            /\ prev_time' = [prev_time EXCEPT ![c] = clock]
            /\ prev_bytes' = [prev_bytes EXCEPT ![c] = 0]
            /\ pc' = [pc EXCEPT ![c] = "dl_loop"]
            /\ UNCHANGED <<events, outcome, status, current_time, throttle>>
    /\ UNCHANGED <<allow_concurrent_calls, lock, call, upVars, clock>>

\* The loop left whether done or not.
DlDoneMutant(c) ==
    /\ pc[c] = "dl_loop"
    /\ DlFinish(c, Returned(IF call[c].op = "download_bytes" THEN fp[c] ELSE None))
    /\ UNCHANGED <<allow_concurrent_calls, lock, call, requests, upVars, clock,
                   fp, done, prev_time, prev_bytes, status, current_time, throttle>>

\* while not done: left when done; download_bytes returns getvalue().
DlDone(c) ==
    /\ pc[c] = "dl_loop"
    /\ done[c]
    /\ DlFinish(c, Returned(IF call[c].op = "download_bytes" THEN fp[c] ELSE None))
    /\ UNCHANGED <<allow_concurrent_calls, lock, call, requests, upVars, clock,
                   fp, done, prev_time, prev_bytes, status, current_time, throttle>>

\* downloader.next_chunk() raises: nothing catches it.
DlChunkError(c) ==
    /\ pc[c] = "dl_loop"
    /\ ~done[c]
    /\ requests' = [requests EXCEPT ![c] = Append(@, [op |-> "next_chunk"])]
    /\ DlFinish(c, Raised(Exc(call[c].error, <<call[c].error, Len(requests[c])>>)))
    /\ UNCHANGED <<allow_concurrent_calls, lock, call, upVars, clock,
                   fp, done, prev_time, prev_bytes, status, current_time, throttle>>

\* One pass of the loop: next_chunk() delivers k bytes and reports
\* MediaDownloadProgress(resumable_progress, total_size), where
\* resumable_progress is the bytes received so far and total_size the size
\* of the complete file; then the throttle, which reads status.total_size.
\* The clock is read once per pass; how far it has advanced since the last
\* reading is Tick's, and a sleep does not constrain it.
DlChunk(c, k) ==
    /\ pc[c] = "dl_loop"
    /\ ~done[c]
    /\ k >= 1
    /\ Len(fp[c]) + k <= call[c].size
    /\ LET m == call[c].max_bytes_per_second
           st == [resumable_progress |-> Len(fp[c]) + k, total_size |-> call[c].size]
           elapsed == clock - prev_time[c]
           bytes_since_last_checked == st.total_size - prev_bytes[c]
           seen == [throttled |-> Truthy(m), delivered |-> k, elapsed |-> elapsed]
       IN /\ requests' = [requests EXCEPT ![c] = Append(@, [op |-> "next_chunk"])]
          /\ fp' = [fp EXCEPT ![c] = @ \o FileBytes(Len(@) + 1, Len(@) + k)]
          /\ status' = [status EXCEPT ![c] = st]
          /\ done' = [done EXCEPT ![c] = (st.resumable_progress = st.total_size)]
          /\ current_time' = [current_time EXCEPT ![c] = Checkpoint(Truthy(m), @, clock)]
          /\ IF Truthy(m) /\ elapsed = 0
             THEN \* bytes_since_last_checked / (current_time - prev_time)
                  /\ DlFinish(c, Raised(Exc("ZeroDivisionError", <<"ZeroDivisionError", 0>>)))
                  /\ throttle' = [throttle EXCEPT ![c] =
                         seen @@ [slept |-> FALSE, sleep |-> Zero, failed |-> TRUE]]
                  /\ UNCHANGED <<prev_time, prev_bytes>>
             ELSE LET sleep == IF Truthy(m)
                               THEN SleepFor(bytes_since_last_checked, elapsed, m[1])
                               ELSE Zero
                  IN /\ throttle' = [throttle EXCEPT ![c] =
                            seen @@ [slept |-> RatPos(sleep), sleep |-> sleep, failed |-> FALSE]]
                     /\ IF RatPos(sleep)
                        THEN /\ pc' = [pc EXCEPT ![c] = "dl_sleep"]
                             /\ UNCHANGED <<prev_time, prev_bytes>>
                        ELSE /\ pc' = [pc EXCEPT ![c] = "dl_loop"]
                             /\ prev_time' = [prev_time EXCEPT ![c] =
                                    Checkpoint(Truthy(m), @, clock)]
                             /\ prev_bytes' = [prev_bytes EXCEPT ![c] =
                                    Checkpoint(Truthy(m), @, st.total_size)]
                     /\ UNCHANGED <<events, outcome, fp_state>>
    /\ UNCHANGED <<allow_concurrent_calls, lock, call, upVars, clock>>

\* time.sleep(...) returns; then the checkpoint of lines 38-39.
DlSleep(c) ==
    /\ pc[c] = "dl_sleep"
    /\ prev_time' = [prev_time EXCEPT ![c] = current_time[c]]
    /\ prev_bytes' = [prev_bytes EXCEPT ![c] = status[c].total_size]
    /\ pc' = [pc EXCEPT ![c] = "dl_loop"]
    /\ UNCHANGED <<allow_concurrent_calls, lock, call, events, outcome, requests,
                   upVars, clock, fp, fp_state, done, status, current_time, throttle>>

\* The clock of time.perf_counter() advances.
Tick ==
    /\ clock < MaxClock
    /\ clock' = clock + 1
    /\ UNCHANGED <<allow_concurrent_calls, lock, pc, call, events, outcome, requests,
                   upVars, dlVars>>

\* ------------------------------------------------------- specifications
GateStep(c) ==
    \/ TraceAcquiring(c)
    \/ AcquireLock(c)
    \/ TraceAcquired(c)
    \/ Direct(c)
    \/ ReleaseLock(c)
    \/ TraceReleased(c)
    \/ Leave(c)
    \/ Invoke(c)
    \/ Return(c)

UploadStep(c) ==
    \/ UploadFor(c)
    \/ UploadTry(c)
    \/ UploadSleep(c)

SimpleStep(c) ==
    \/ CreateFolder(c)
    \/ CreateComment(c)

DownloadStep(c) ==
    \/ DlOpen(c)
    \/ DlDone(c)
    \/ DlChunkError(c)
    \/ \E k \in 1..MaxSize : DlChunk(c, k)

\* Concurrent callers of one client, gated or not.
Next ==
    \/ \E c \in Callers, a \in GateArgs : Call(c, a)
    \/ \E c \in Callers : GateStep(c)
    \/ \E c \in Callers : UploadStep(c)
    \/ \E c \in Callers : DownloadStep(c)
    \/ \E c \in Callers : SimpleStep(c)

Spec == Init /\ [][Next]_vars

\* One caller, every upload.
NextUpload ==
    \/ \E a \in UploadArgs : Call(1, a)
    \/ GateStep(1)
    \/ UploadStep(1)

\* One caller, the operations that send a single request.
NextSimple ==
    \/ \E a \in FolderArgs \cup CommentArgs : Call(1, a)
    \/ GateStep(1)
    \/ SimpleStep(1)

SpecSimple == Init /\ [][NextSimple]_vars

SpecUpload == Init /\ [][NextUpload]_vars

\* The calling thread runs on: a statement that can execute does, and
\* time.sleep(1) returns.
SpecUploadFair == SpecUpload /\ WF_vars(GateStep(1) \/ UploadStep(1))

\* One caller, every shape of upload's body.
NextBody ==
    \/ \E a \in BodyArgs : Call(1, a)
    \/ GateStep(1)
    \/ UploadStep(1)

SpecBody == Init /\ [][NextBody]_vars

\* One caller, every download, and the clock.
NextDownload ==
    \/ \E a \in DownloadArgs : Call(1, a)
    \/ GateStep(1)
    \/ DownloadStep(1)
    \/ DlSleep(1)
    \/ Tick

SpecDownload == Init /\ [][NextDownload]_vars

\* ================================================================ claims
BodyPcs == {"up_for", "up_try", "up_sleep", "dl_open", "dl_loop", "dl_sleep",
            "cf_req", "cc_req"}
Executing(c) == pc[c] \in BodyPcs
Ended(c) == pc[c] \in {"exit", "released", "returned"}
Has(seq, x) == \E j \in 1..Len(seq) : seq[j] = x
IsPrefix(s, t) == Len(s) <= Len(t) /\ s = SubSeq(t, 1, Len(s))
Between(c) == Has(events[c], "acquire") /\ ~Has(events[c], "release")
GateOrder == <<"acquiring lock", "acquire", "acquired lock", "body_start",
               "body_end", "release", "released lock">>

\* The number of leading transient failures of a script.
Fails(script) ==
    IF \A j \in 1..Len(script) : script[j] \in TransientKinds
    THEN Len(script)
    ELSE (CHOOSE j \in 1..Len(script) :
             /\ script[j] \notin TransientKinds
             /\ \A h \in 1..(j - 1) : script[h] \in TransientKinds) - 1
AlwaysTransient(script) == \A j \in 1..Len(script) : script[j] \in TransientKinds
Uploaded(c) == call[c].op = "upload" /\ Ended(c)

\* C1: with allow_concurrent_calls = False at most one call executes its
\* body at any time, the call that executes holds the lock, and no caller
\* acquires between another caller's acquire and release.
C1_MutualExclusion ==
    ~allow_concurrent_calls =>
        /\ \A c \in Callers : Executing(c) => lock = Some(c)
        /\ \A c, d \in Callers : c /= d => ~(Executing(c) /\ Executing(d))
        /\ \A c, d \in Callers : c /= d => ~(Between(c) /\ Between(d))

C1_Witness ==
    /\ ~allow_concurrent_calls
    /\ \E c, d \in Callers :
          /\ pc[c] = "up_sleep"
          /\ pc[d] = "wait"
          /\ call[d].op = "download_bytes"

\* C2: with the gate enabled the lock is held only by a call in flight,
\* and a call that has ended, with a value or with any error, went through
\* the gate and no longer holds the lock.
C2_ReleasedOnEveryExit ==
    ~allow_concurrent_calls =>
        /\ lock /= None => pc[lock[1]] \in {"locked", "body", "exit"} \cup BodyPcs
        /\ \A c \in Callers :
              pc[c] = "returned" =>
                 /\ lock /= Some(c)
                 /\ Has(events[c], "acquire")
                 /\ Has(events[c], "release")

C2_Witness ==
    /\ ~allow_concurrent_calls
    /\ \E c, d \in Callers :
          /\ pc[c] = "returned"
          /\ outcome[c].kind = "raise"
          /\ outcome[c].exc.type = "RuntimeError"
          /\ lock = Some(d)
          /\ Executing(d)

\* C3: an upload with retry_count >= 1 whose transport fails transiently
\* k < retry_count times and then succeeds returns that success value
\* after exactly k + 1 invocations.
C3_RetryThenSuccess ==
    \A c \in Callers :
        Uploaded(c) =>
            LET k == Fails(call[c].script)
            IN (/\ call[c].retry_count >= 1
                /\ k < call[c].retry_count
                /\ ScriptAt(call[c].script, k + 1) = "ok")
               => /\ outcome[c] = Returned(Metadata(k + 1))
                  /\ Len(requests[c]) = k + 1

C3_Witness ==
    \E c \in Callers :
        /\ Uploaded(c)
        /\ call[c].retry_count = 3
        /\ Fails(call[c].script) = 2
        /\ outcome[c].kind = "return"

\* C4: an upload with retry_count >= 1 whose transport always fails
\* transiently makes exactly retry_count invocations and raises one
\* RuntimeError carrying the message of the last attempt's error.
C4_Exhaustion ==
    \A c \in Callers :
        (Uploaded(c) /\ call[c].retry_count >= 1 /\ AlwaysTransient(call[c].script))
        => LET n == call[c].retry_count
           IN /\ Len(requests[c]) = n
              /\ outcome[c] = Raised(Exc("RuntimeError",
                                         Str(Respond(call[c].script, n).exc)))

C4_Witness ==
    \E c \in Callers :
        /\ Uploaded(c)
        /\ call[c].retry_count = 3
        /\ call[c].script = <<"SSLError", "BrokenPipeError", "SSLError">>
        /\ outcome[c].kind = "raise"
        /\ outcome[c].exc.arg = <<"SSLError", 3>>

\* C5: a non-transient error of the transport, on the first invocation or
\* after transient failures, ends the upload at that invocation and is the
\* error the caller gets.
C5_NonTransientPropagates ==
    \A c \in Callers :
        Uploaded(c) =>
            LET k == Fails(call[c].script)
            IN (k < call[c].retry_count /\ ScriptAt(call[c].script, k + 1) = "HttpError")
               => /\ outcome[c] = Raised(Respond(call[c].script, k + 1).exc)
                  /\ Len(requests[c]) = k + 1

C5_Witness ==
    \E c \in Callers :
        /\ Uploaded(c)
        /\ Fails(call[c].script) = 2
        /\ outcome[c].kind = "raise"
        /\ outcome[c].exc.type = "HttpError"

\* C6: with allow_concurrent_calls = True (the default) the lock is never
\* taken and no call has a lock or trace event; a state with two callers
\* inside operation bodies is reachable (C6_Witness).
C6_NoGate ==
    allow_concurrent_calls =>
        /\ lock = None
        /\ \A c \in Callers : IsPrefix(events[c], <<"body_start", "body_end">>)

C6_Witness ==
    /\ allow_concurrent_calls
    /\ \E c, d \in Callers :
          /\ c /= d
          /\ pc[c] = "up_try"
          /\ pc[d] = "dl_loop"

\* C7: a gated call's events occur in the order: "acquiring lock" trace,
\* acquire, "acquired lock" trace, the body from start to end, release,
\* "released lock" trace; the body runs only between the third and the
\* release.
C7_GateOrder ==
    ~allow_concurrent_calls =>
        \A c \in Callers :
            /\ IsPrefix(events[c], GateOrder)
            /\ Executing(c) => Len(events[c]) = 4
            /\ pc[c] = "released" => Len(events[c]) = 6

C7_Witness ==
    /\ ~allow_concurrent_calls
    /\ \E c \in Callers : events[c] = GateOrder /\ pc[c] = "returned"

\* C8: a download with max_bytes_per_second = None never sleeps and
\* leaves prev_time and prev_bytes as they were, whatever the chunks.
C8_NoCeilingNoThrottle ==
    [][\A c \in Callers :
          (pc[c] = "dl_loop" /\ call[c].max_bytes_per_second = None) =>
              /\ pc'[c] /= "dl_sleep"
              /\ prev_time'[c] = prev_time[c]
              /\ prev_bytes'[c] = prev_bytes[c]
              /\ throttle'[c] /= None =>
                    ~throttle'[c].slept /\ throttle'[c].sleep = Zero]_vars

C8_Witness ==
    \E c \in Callers :
        /\ pc[c] = "dl_loop"
        /\ call[c].max_bytes_per_second = None
        /\ Len(requests[c]) = 3
        /\ clock > prev_time[c]

\* C9: a chunk with a ceiling set, elapsed > 0 and (bytes delivered since
\* the previous checkpoint) / elapsed <= ceiling causes no sleep.
C9_NoSleepAtOrBelowCeiling ==
    \A c \in Callers :
        (/\ throttle[c] /= None
         /\ throttle[c].throttled
         /\ throttle[c].elapsed > 0
         /\ throttle[c].delivered <= call[c].max_bytes_per_second[1] * throttle[c].elapsed)
        => ~throttle[c].slept

\* C10: a chunk with a ceiling set and (bytes delivered since the previous
\* checkpoint) / elapsed > ceiling causes a sleep of exactly
\* (bytes / elapsed / ceiling - 1) * ceiling.
C10_SleepFormula ==
    \A c \in Callers :
        (/\ throttle[c] /= None
         /\ throttle[c].throttled
         /\ throttle[c].elapsed > 0
         /\ throttle[c].delivered > call[c].max_bytes_per_second[1] * throttle[c].elapsed)
        => LET b == throttle[c].delivered
               e == throttle[c].elapsed
               m == call[c].max_bytes_per_second[1]
           IN /\ throttle[c].slept
              /\ throttle[c].sleep = Rat((b - e * m) * m, e * m)

\* C11: with a ceiling set and elapsed <= 0 between two checkpoints the
\* throttle does not fail: it sleeps, and the download goes on.
C11_ZeroElapsedGuarded ==
    \A c \in Callers :
        (/\ throttle[c] /= None
         /\ throttle[c].throttled
         /\ throttle[c].elapsed <= 0)
        => /\ ~throttle[c].failed
           /\ throttle[c].slept
           /\ ~(Ended(c) /\ outcome[c].kind = "raise"
                /\ outcome[c].exc.type = "ZeroDivisionError")

\* C12: after a chunk processed with a ceiling set, prev_time is the time
\* read for that chunk and prev_bytes the cumulative bytes delivered so far.
C12_CheckpointAfterChunk ==
    \A c \in Callers :
        (/\ pc[c] = "dl_loop"
         /\ throttle[c] /= None
         /\ throttle[c].throttled)
        => /\ prev_time[c] = current_time[c]
           /\ prev_bytes[c] = status[c].resumable_progress

C15_NoRetryAndClosed ==
    \A c \in Callers :
        (call[c].op \in {"download_bytes", "download_file"} /\ Ended(c)) =>
            LET failed == outcome[c].kind = "raise"
                n == Len(requests[c])
            IN /\ (failed /\ outcome[c].exc.type = "OSError") =>
                     /\ call[c].op = "download_file"
                     /\ requests[c] = <<>>
                     /\ fp_state[c] = "none"
               /\ ~(failed /\ outcome[c].exc.type = "OSError") => fp_state[c] = "closed"
               /\ (failed /\ outcome[c].exc.type \in {"HttpError"} \cup TransientKinds) =>
                     /\ requests[c][n] = [op |-> "next_chunk"]
                     /\ outcome[c].exc = Exc(call[c].error, <<call[c].error, n - 1>>)
                     /\ ~done[c]

C15_Witness ==
    \E c \in Callers :
        /\ call[c].op = "download_file"
        /\ pc[c] = "returned"
        /\ outcome[c].kind = "raise"
        /\ outcome[c].exc = Exc("SSLError", <<"SSLError", 2>>)
        /\ Len(fp[c]) = 1
        /\ fp_state[c] = "closed"

\* C20: a ceiling of 0 is treated as no ceiling: no chunk is throttled, no
\* division happens (so none fails), nothing sleeps, the checkpoint is not
\* moved, and the download ends as one without a ceiling does.
C20_ZeroCeilingIsAbsent ==
    \A c \in Callers :
        (/\ call[c].op \in {"download_bytes", "download_file"}
         /\ call[c].max_bytes_per_second = Some(0)) =>
            /\ pc[c] /= "dl_sleep"
            /\ prev_bytes[c] = 0
            /\ throttle[c] /= None =>
                  /\ ~throttle[c].throttled
                  /\ ~throttle[c].slept
                  /\ ~throttle[c].failed
            /\ (Ended(c) /\ outcome[c].kind = "raise") =>
                  outcome[c].exc.type /= "ZeroDivisionError"

C20_Witness ==
    \E c \in Callers :
        /\ call[c].op = "download_bytes"
        /\ call[c].max_bytes_per_second = Some(0)
        /\ pc[c] = "returned"
        /\ outcome[c] = Returned(<<1, 2>>)
        /\ Len(requests[c]) = 3
        /\ throttle[c].elapsed = 0

\* C14: every attempt of an upload without key is a create, every attempt
\* of an upload with key is an update of that file id, and an upload that
\* returns returns the response of its last, successful, attempt.
C14_Dispatch ==
    \A c \in Callers :
        call[c].op = "upload" =>
            /\ \A j \in 1..Len(requests[c]) :
                  IF call[c].key = None
                  THEN requests[c][j].op = "create"
                  ELSE requests[c][j].op = "update" /\ requests[c][j].fileId = call[c].key
            /\ (Ended(c) /\ outcome[c].kind = "return") =>
                  outcome[c].val = Respond(call[c].script, Len(requests[c])).val

C14_Witness ==
    \E c \in Callers :
        /\ Uploaded(c)
        /\ call[c].key = Some("F1")
        /\ Len(requests[c]) = 3
        /\ \A j \in 1..3 : requests[c][j].op = "update"
        /\ outcome[c] = Returned(Metadata(3))

\* C17: the body of every attempt of an upload is the extra fields with
\* parents = [folder_id] when folder_id is given and with
\* contentHints.thumbnail = {image, mimeType: image/png} when thumbnail is
\* given, every other field and every other content hint being the caller's;
\* with neither it is the extra fields themselves.
C17_BodyShape ==
    \A c \in Callers :
        call[c].op = "upload" =>
            \A j \in 1..Len(requests[c]) :
                LET body == requests[c][j].body
                    kwargs == call[c].kwargs
                    folder == call[c].folder_id /= None
                    thumb == call[c].thumbnail /= None
                    hints == IF "contentHints" \in DOMAIN kwargs
                             THEN kwargs.contentHints ELSE <<>>
                IN /\ DOMAIN body = DOMAIN kwargs
                                    \cup (IF folder THEN {"parents"} ELSE {})
                                    \cup (IF thumb THEN {"contentHints"} ELSE {})
                   /\ \A k \in DOMAIN kwargs \ {"parents", "contentHints"} :
                         body[k] = kwargs[k]
                   /\ IF folder
                      THEN body.parents = <<call[c].folder_id[1]>>
                      ELSE "parents" \in DOMAIN kwargs => body.parents = kwargs.parents
                   /\ IF thumb
                      THEN /\ DOMAIN body.contentHints = DOMAIN hints \cup {"thumbnail"}
                           /\ body.contentHints.thumbnail =
                                 [image |-> call[c].thumbnail[1], mimeType |-> "image/png"]
                           /\ \A h \in DOMAIN hints \ {"thumbnail"} :
                                 body.contentHints[h] = hints[h]
                      ELSE "contentHints" \in DOMAIN kwargs =>
                               body.contentHints = kwargs.contentHints
                   /\ (~folder /\ ~thumb) => body = kwargs
                   /\ body = requests[c][1].body

C17_Witness ==
    \E c \in Callers :
        /\ Uploaded(c)
        /\ outcome[c].kind = "return"
        /\ call[c].folder_id = Some("P1")
        /\ call[c].thumbnail = Some("png")
        /\ "indexableText" \in DOMAIN ContentHints(call[c].kwargs)
        /\ "parents" \in DOMAIN call[c].kwargs
        /\ Len(requests[c]) = 3
        /\ requests[c][3].body =
              [parents |-> <<"P1">>,
               contentHints |-> [indexableText |-> "text",
                                 thumbnail |-> [image |-> "png", mimeType |-> "image/png"]]]

\* C18: an upload never invokes the transport more than max(retry_count, 0)
\* times and always ends; with retry_count <= 0 it ends without any
\* invocation, raising RuntimeError(None).
C18_BoundedAttempts ==
    /\ [](\A c \in Callers :
            call[c].op = "upload" =>
                /\ Len(requests[c]) <= (IF call[c].retry_count > 0
                                        THEN call[c].retry_count ELSE 0)
                /\ (Ended(c) /\ call[c].retry_count <= 0) =>
                      /\ requests[c] = <<>>
                      /\ outcome[c] = Raised(Exc("RuntimeError", None)))
    /\ \A c \in Callers :
          (call[c].op = "upload" /\ Executing(c)) ~> Ended(c)

C18_Witness ==
    \E c \in Callers :
        /\ Uploaded(c)
        /\ call[c].retry_count = -1
        /\ call[c].script = <<"ok">>
        /\ requests[c] = <<>>
        /\ outcome[c] = Raised(Exc("RuntimeError", None))

\* C19: with the gate enabled an upload holds the lock through all of its
\* attempts and the sleeps between them, and while it does no other call
\* is in its body or starts it.
C19_LockHeldAcrossRetries ==
    /\ [](~allow_concurrent_calls =>
            \A c \in Callers :
                (call[c].op = "upload" /\ pc[c] \in {"up_for", "up_try", "up_sleep"})
                => /\ lock = Some(c)
                   /\ \A d \in Callers \ {c} :
                         /\ pc[d] \notin BodyPcs \cup {"locked", "body"}
                         /\ ~Between(d))
    /\ [][~allow_concurrent_calls =>
            \A c \in Callers :
                (call[c].op = "upload" /\ pc[c] \in {"up_for", "up_try", "up_sleep"})
                => \A d \in Callers \ {c} :
                      /\ ~Has(events[d], "body_start") => ~Has(events'[d], "body_start")
                      /\ Len(requests'[d]) <= Len(requests[d])]_vars

C19_Witness ==
    /\ ~allow_concurrent_calls
    /\ \E c, d \in Callers :
          /\ call[c].op = "upload"
          /\ pc[c] = "up_try"
          /\ i[c] = 1
          /\ Len(requests[c]) = 1
          /\ lock = Some(c)
          /\ pc[d] = "wait"
          /\ call[d].op = "create_comment"

\* C16: create_folder sends one create request and no second one, whatever
\* the first one's outcome; its body has the given name, the folder
\* mimeType and, with a folder_id, parents = [folder_id], whatever the extra
\* fields say, and has no parents when neither folder_id nor an extra
\* parents is given.
C16_FolderRequest ==
    \A c \in Callers :
        call[c].op = "create_folder" =>
            /\ Len(requests[c]) <= 1
            /\ Ended(c) =>
                  LET body == requests[c][1].body
                      r == Respond(call[c].script, 1)
                  IN /\ Len(requests[c]) = 1
                     /\ requests[c][1].op = "create"
                     /\ body.name = call[c].name
                     /\ body.mimeType = "application/vnd.google-apps.folder"
                     /\ call[c].folder_id /= None =>
                           body.parents = <<call[c].folder_id[1]>>
                     /\ (call[c].folder_id = None /\ "parents" \notin DOMAIN call[c].kwargs)
                           => "parents" \notin DOMAIN body
                     /\ outcome[c] = IF r.ok THEN Returned(r.val) ELSE Raised(r.exc)

C16_Witness ==
    \E c \in Callers :
        /\ call[c].op = "create_folder"
        /\ Ended(c)
        /\ call[c].folder_id = Some("P1")
        /\ "mimeType" \in DOMAIN call[c].kwargs
        /\ "parents" \in DOMAIN call[c].kwargs
        /\ call[c].script = <<"SSLError">>
        /\ outcome[c].kind = "raise"
        /\ outcome[c].exc.type = "SSLError"
        /\ requests[c] = <<[op |-> "create",
                            body |-> [name |-> "reports",
                                      mimeType |-> "application/vnd.google-apps.folder",
                                      parents |-> <<"P1">>,
                                      description |-> "monthly"]]>>

====
